---- MODULE Spec2Model ----
(***************************************************************************)
(* Model of clean_data (src/dataset_scripts/main.py): the cleaning         *)
(* pipeline over a DataFrame of cafe sales and the cleaning report it      *)
(* builds.  One action per numbered step of clean_data; the DataFrame is a *)
(* sequence of rows that keep their index label, a cell is a string, a     *)
(* number, a timestamp or NaN.                                             *)
(*                                                                         *)
(* Numbers are fixed-point integers in hundredths (2.0 is 200, 1.5 is 150).*)
(* Every price of MENU_PRICES has at most one decimal and every quantity   *)
(* drawn below is whole, so products are exact in this representation.     *)
(***************************************************************************)
EXTENDS Integers, Sequences, FiniteSets, TLC

VARIABLES input, df_clean, cleaning_report, pc, run, first

vars == <<input, df_clean, cleaning_report, pc, run, first>>

(***************************************************************************)
(* Cells                                                                   *)
(***************************************************************************)
NaN == [t |-> "nan", s |-> "", n |-> 0]
Str(x) == [t |-> "str", s |-> x, n |-> 0]
Num(v) == [t |-> "num", s |-> "", n |-> v]
Timestamp(x) == [t |-> "date", s |-> x, n |-> 0]

isnull(c) == c.t = "nan"

\* k whole units as a fixed-point number
Units(k) == k * 100

Columns ==
    {"Transaction ID", "Item", "Quantity", "Price Per Unit", "Total Spent",
     "Payment Method", "Location", "Transaction Date"}

\* the reference table, in the insertion order a Python dict iterates in
MENU_ORDER ==
    <<"Coffee", "Tea", "Sandwich", "Salad", "Cake", "Cookie", "Smoothie", "Juice">>

MENU_PRICES ==
    [Coffee |-> 200, Tea |-> 150, Sandwich |-> 400, Salad |-> 500,
     Cake |-> 300, Cookie |-> 100, Smoothie |-> 400, Juice |-> 300]

\* `item in MENU_PRICES' for a cell
InMenu(c) == c.t = "str" /\ c.s \in DOMAIN MENU_PRICES

(***************************************************************************)
(* pandas conversions                                                      *)
(***************************************************************************)
\* the texts pd.to_numeric parses, with their values; any other text is
\* unparseable and coerced to NaN
NumericText ==
    [s \in {"0", "1", "2", "3", "-1", "1.5", "2.0", "3.0", "4.0", "7.5"} |->
        CASE s = "0" -> 0
          [] s = "1" -> 100
          [] s = "2" -> 200
          [] s = "3" -> 300
          [] s = "-1" -> 0 - 100
          [] s = "1.5" -> 150
          [] s = "2.0" -> 200
          [] s = "3.0" -> 300
          [] s = "4.0" -> 400
          [] s = "7.5" -> 750]

\* pd.to_numeric(x, errors='coerce')
to_numeric(c) ==
    CASE c.t = "num" -> c
      [] c.t = "str" /\ c.s \in DOMAIN NumericText -> Num(NumericText[c.s])
      [] OTHER -> NaN

\* the texts pd.to_datetime parses
DateText == {"2024-01-01", "2024-01-02"}

Parseable(c) == c.t = "date" \/ (c.t = "str" /\ c.s \in DateText)

\* product of two fixed-point numbers, NaN if either is NaN
Mul(a, b) ==
    IF a.t = "num" /\ b.t = "num" THEN Num((a.n * b.n) \div 100) ELSE NaN

(***************************************************************************)
(* DataFrame and dict helpers                                              *)
(***************************************************************************)
Map(df, F(_)) == [i \in 1..Len(df) |-> F(df[i])]

Count(df, P(_)) == Cardinality({i \in 1..Len(df) : P(df[i])})

\* df.loc[..., col] = v for one row
SetCell(r, col, v) == [r EXCEPT !.row = [r.row EXCEPT ![col] = v]]

Cell(r, col) == r.row[col]

\* df.dropna(subset=[col])
dropna(df, col) == SelectSeq(df, LAMBDA r : ~isnull(Cell(r, col)))

EmptyDict == [k \in {} |-> 0]

\* d[k] = v
Put(d, k, v) == [x \in (DOMAIN d) \cup {k} |-> IF x = k THEN v ELSE d[x]]

\* cleaning_report[section][k] = v
PutIn(rep, section, k, v) == Put(rep, section, Put(rep[section], k, v))

\* the dictionary clean_data starts from
InitialReport(df) ==
    [k \in {"initial_rows", "rows_removed_by_operation", "values_imputed",
            "imputation_values_used", "price_corrections",
            "total_calculations_fixed"} |->
        CASE k = "initial_rows" -> Len(df)
          [] k = "rows_removed_by_operation" -> EmptyDict
          [] k = "values_imputed" -> EmptyDict
          [] k = "imputation_values_used" -> EmptyDict
          [] k = "price_corrections" -> 0
          [] k = "total_calculations_fixed" -> 0]

(***************************************************************************)
(* Input datasets                                                          *)
(***************************************************************************)
MaxRows == 1
MaxMixedRows == 3
MaxFillRows == 4

MkRow(id, item, qty, price, total, pay, loc, date) ==
    [c \in Columns |->
        CASE c = "Transaction ID" -> Str(id)
          [] c = "Item" -> Str(item)
          [] c = "Quantity" -> Str(qty)
          [] c = "Price Per Unit" -> Str(price)
          [] c = "Total Spent" -> Str(total)
          [] c = "Payment Method" -> Str(pay)
          [] c = "Location" -> Str(loc)
          [] c = "Transaction Date" -> Str(date)]

\* one row, every combination of item, quantity and price defects
RowSet ==
    {MkRow("T1", it, q, p, "10", "Cash", "", "2024-01-01") :
        it \in {"Coffee", "Smoothie", "Pizza", ""},
        q \in {"3", "0", "abc", "UNKNOWN"},
        p \in {"2.0", "4.0", "3.0", "7.5", "ERROR", "abc"}}

\* rows of every fate: kept, no id, item inferred, item unresolvable,
\* no date, item outside the menu
MixedRowSet ==
    {MkRow("T1", "Tea", "2", "1.5", "3.0", "Cash", "In-store", "2024-01-01"),
     MkRow("", "ERROR", "UNKNOWN", "", "ERROR", "UNKNOWN", "", "ERROR"),
     MkRow("T2", "UNKNOWN", "-1", "3.0", "5", "Credit Card", "Takeaway", "2024-01-02"),
     MkRow("T3", "", "1", "UNKNOWN", "", "Cash", "Takeaway", "2024-01-01"),
     MkRow("T4", "Juice", "2", "3.0", "6.0", "Digital Wallet", "In-store", ""),
     MkRow("T5", "Pizza", "1", "ERROR", "ERROR", "", "", "not-a-date")}

\* rows that differ in payment method, location and date only
FillRowSet ==
    {MkRow("T1", "Coffee", "1", "2.0", "2.0", pl[1], pl[2], d) :
        pl \in {<<"Credit Card", "Takeaway">>, <<"Cash", "In-store">>,
                <<"UNKNOWN", "">>},
        d \in {"2024-01-01", ""}}
    \cup {MkRow("T1", "Coffee", "1", "2.0", "2.0", "Cash", "", "2024-01-01")}

Datasets(rows, n) == UNION {[1..k -> rows] : k \in 0..n}

\* pd.read_csv gives the rows a RangeIndex
MkDF(rows) == [i \in 1..Len(rows) |-> [idx |-> i - 1, row |-> rows[i]]]

NoFirst == [df |-> <<>>, report |-> EmptyDict]

\* clean_data entered: df_clean = df.copy(), cleaning_report initialised
Init ==
    /\ \E rows \in Datasets(RowSet, MaxRows) \cup Datasets(MixedRowSet, MaxMixedRows)
                   \cup Datasets(FillRowSet, MaxFillRows) :
          input = MkDF(rows)
    /\ df_clean = input
    /\ cleaning_report = InitialReport(input)
    /\ pc = "HandleMissing"
    /\ run = 1
    /\ first = NoFirst

(***************************************************************************)
(* 1. replace '', 'ERROR', 'UNKNOWN' with NaN                              *)
(***************************************************************************)
Sentinels == {"", "ERROR", "UNKNOWN"}

replace_NoUnknown(c) == IF c.t = "str" /\ c.s \in {"", "ERROR"} THEN NaN ELSE c

replace(c) == IF c.t = "str" /\ c.s \in Sentinels THEN NaN ELSE c

\* (df == token).sum().sum()
CountToken(df, token) ==
    Cardinality({<<i, c>> \in (1..Len(df)) \X Columns : df[i].row[c] = Str(token)})

HandleMissing ==
    /\ pc = "HandleMissing"
    /\ df_clean' = Map(df_clean, LAMBDA r : [r EXCEPT !.row = [c \in Columns |-> replace(r.row[c])]])
    /\ cleaning_report' =
          PutIn(PutIn(PutIn(cleaning_report,
              "values_imputed", "ERROR_values_replaced", CountToken(input, "ERROR")),
              "values_imputed", "UNKNOWN_values_replaced", CountToken(input, "UNKNOWN")),
              "values_imputed", "empty_values_replaced", CountToken(input, ""))
    /\ pc' = "CleanTransactionID"
    /\ UNCHANGED <<input, run, first>>

(***************************************************************************)
(* 2. drop rows without a Transaction ID                                   *)
(***************************************************************************)
CleanTransactionID ==
    /\ pc = "CleanTransactionID"
    /\ LET after == dropna(df_clean, "Transaction ID")
       IN /\ df_clean' = after
          /\ cleaning_report' =
                PutIn(cleaning_report, "rows_removed_by_operation",
                      "missing_transaction_id", Len(df_clean) - Len(after))
    /\ pc' = "CleanItem"
    /\ UNCHANGED <<input, run, first>>

(***************************************************************************)
(* 3. infer a missing Item from the price, drop rows still without Item    *)
(***************************************************************************)
RECURSIVE LastMatch(_, _)
LastMatch(price, k) ==
    IF k < 1 THEN NaN
    ELSE IF price.n = MENU_PRICES[MENU_ORDER[k]] THEN Str(MENU_ORDER[k])
    ELSE LastMatch(price, k - 1)

RECURSIVE FirstMatch(_, _)
FirstMatch(price, k) ==
    IF k > Len(MENU_ORDER) THEN NaN
    ELSE IF price.n = MENU_PRICES[MENU_ORDER[k]] THEN Str(MENU_ORDER[k])
    ELSE FirstMatch(price, k + 1)

InferItem_LastMatch(price) == LastMatch(price, Len(MENU_ORDER))

\* for item, menu_price in MENU_PRICES.items(): if price == menu_price: ... break
InferItem(price) == FirstMatch(price, 1)

\* the Item cell of a row after the inference loop
InferredItem(r) ==
    IF isnull(Cell(r, "Item"))
    THEN LET price == to_numeric(Cell(r, "Price Per Unit"))
         IN IF ~isnull(price) THEN InferItem(price) ELSE NaN
    ELSE Cell(r, "Item")

ItemsRemoved_MissingBefore(before, inferred, after) ==
    Count(before, LAMBDA r : isnull(Cell(r, "Item")))

\* items_removed = rows_before - rows_after
ItemsRemoved(before, inferred, after) == Len(inferred) - Len(after)

CleanItem ==
    /\ pc = "CleanItem"
    /\ LET inferred == Map(df_clean, LAMBDA r : SetCell(r, "Item", InferredItem(r)))
           items_inferred ==
               Count(df_clean, LAMBDA r : isnull(Cell(r, "Item")) /\ ~isnull(InferredItem(r)))
           after == dropna(inferred, "Item")
       IN /\ df_clean' = after
          /\ cleaning_report' =
                PutIn(PutIn(cleaning_report,
                    "values_imputed", "items_inferred_from_price", items_inferred),
                    "rows_removed_by_operation", "unresolvable_missing_items",
                    ItemsRemoved(df_clean, inferred, after))
    /\ pc' = "CleanQuantity"
    /\ UNCHANGED <<input, run, first>>

(***************************************************************************)
(* 4. Quantity: unparseable or <= 0 becomes 1                              *)
(***************************************************************************)
imputation_value == Units(1)

invalid_qty_Negative(q) == isnull(q) \/ q.n < 0

\* df_clean['Quantity'].isnull() | (df_clean['Quantity'] <= 0)
invalid_qty(q) == isnull(q) \/ q.n <= 0

FixQuantity_Zero(df) ==
    Map(df, LAMBDA r : IF invalid_qty(Cell(r, "Quantity"))
                       THEN SetCell(r, "Quantity", Num(0)) ELSE r)

FixQuantity_Drop(df) == SelectSeq(df, LAMBDA r : ~invalid_qty(Cell(r, "Quantity")))

\* df_clean.loc[invalid_qty, 'Quantity'] = imputation_value
FixQuantity(df) ==
    Map(df, LAMBDA r : IF invalid_qty(Cell(r, "Quantity"))
                       THEN SetCell(r, "Quantity", Num(imputation_value)) ELSE r)

CleanQuantity ==
    /\ pc = "CleanQuantity"
    /\ LET numeric == Map(df_clean, LAMBDA r : SetCell(r, "Quantity", to_numeric(Cell(r, "Quantity"))))
           invalid_qty_count == Count(numeric, LAMBDA r : invalid_qty(Cell(r, "Quantity")))
       IN IF invalid_qty_count > 0
          THEN /\ df_clean' = FixQuantity(numeric)
               /\ cleaning_report' =
                     PutIn(PutIn(cleaning_report,
                         "values_imputed", "invalid_quantities_fixed", invalid_qty_count),
                         "imputation_values_used", "invalid_quantities", imputation_value)
          ELSE /\ df_clean' = numeric
               /\ UNCHANGED cleaning_report
    /\ pc' = "CleanPrice"
    /\ UNCHANGED <<input, run, first>>

(***************************************************************************)
(* 4. Price Per Unit: filled and corrected from the menu                   *)
(***************************************************************************)
\* a row whose missing price the first loop fills
Fillable(r) == isnull(Cell(r, "Price Per Unit")) /\ InMenu(Cell(r, "Item"))

FillPrice(r) ==
    IF Fillable(r)
    THEN SetCell(r, "Price Per Unit", Num(MENU_PRICES[Cell(r, "Item").s])) ELSE r

\* a row whose price the second loop overwrites
Correctable(r) ==
    /\ InMenu(Cell(r, "Item"))
    /\ ~isnull(Cell(r, "Price Per Unit"))
    /\ Cell(r, "Price Per Unit").n # MENU_PRICES[Cell(r, "Item").s]

CorrectPrice(r) ==
    IF Correctable(r)
    THEN SetCell(r, "Price Per Unit", Num(MENU_PRICES[Cell(r, "Item").s])) ELSE r

\* price_imputation_details / price_correction_details
Details(df, P(_)) ==
    LET items == {Cell(df[i], "Item").s : i \in {j \in 1..Len(df) : P(df[j])}}
    IN [it \in items |-> MENU_PRICES[it]]

CleanPrice ==
    /\ pc = "CleanPrice"
    /\ LET numeric == Map(df_clean, LAMBDA r : SetCell(r, "Price Per Unit", to_numeric(Cell(r, "Price Per Unit"))))
           filled == Map(numeric, FillPrice)
           corrected == Map(filled, CorrectPrice)
       IN /\ df_clean' = corrected
          /\ cleaning_report' =
                PutIn(PutIn(Put(PutIn(cleaning_report,
                    "values_imputed", "missing_prices_filled", Count(numeric, Fillable)),
                    "price_corrections", Count(filled, Correctable)),
                    "imputation_values_used", "missing_prices", Details(numeric, Fillable)),
                    "imputation_values_used", "corrected_prices", Details(filled, Correctable))
    /\ pc' = "RecalcTotal"
    /\ UNCHANGED <<input, run, first>>

(***************************************************************************)
(* 5. Total Spent = Quantity * Price Per Unit, for all rows                *)
(***************************************************************************)
RecalculatedRows_Changed(df) ==
    Count(df, LAMBDA r :
        Cell(r, "Total Spent") # Mul(Cell(r, "Quantity"), Cell(r, "Price Per Unit")))

\* cleaning_report['total_calculations_fixed'] = len(df_clean)
RecalculatedRows(df) == Len(df)

RecalcTotal ==
    /\ pc = "RecalcTotal"
    /\ df_clean' = Map(df_clean, LAMBDA r :
          SetCell(r, "Total Spent", Mul(Cell(r, "Quantity"), Cell(r, "Price Per Unit"))))
    /\ cleaning_report' = Put(cleaning_report, "total_calculations_fixed", RecalculatedRows(df_clean))
    /\ pc' = "CleanPaymentMethod"
    /\ UNCHANGED <<input, run, first>>

(***************************************************************************)
(* 6, 7. Payment Method and Location: nulls filled with the mode           *)
(***************************************************************************)
\* the category texts, in the sorted order Series.mode() returns its modes in
StringOrder ==
    <<"Cash", "Credit Card", "Digital Wallet", "In-store", "Takeaway">>

Rank(v) == CHOOSE k \in 1..Len(StringOrder) : StringOrder[k] = v

Occurrences(df, col, v) == Count(df, LAMBDA r : Cell(r, col) = Str(v))

Present(df, col) ==
    {Cell(df[i], col).s : i \in {j \in 1..Len(df) : ~isnull(Cell(df[j], col))}}

mode_AnyValue(df, col) == Present(df, col)

\* Series.mode(): the non-null values of the highest frequency
mode(df, col) ==
    {v \in Present(df, col) :
        \A w \in Present(df, col) : Occurrences(df, col, v) >= Occurrences(df, col, w)}

\* mode()[0] if len(mode()) > 0 else default
most_common(df, col, default) ==
    LET m == mode(df, col)
    IN IF m # {} THEN CHOOSE v \in m : \A w \in m : Rank(v) <= Rank(w) ELSE default

fillna(df, col, v) ==
    Map(df, LAMBDA r : IF isnull(Cell(r, col)) THEN SetCell(r, col, Str(v)) ELSE r)

FillCategory(col, default, count_key, value_key) ==
    LET missing == Count(df_clean, LAMBDA r : isnull(Cell(r, col)))
        value == most_common(df_clean, col, default)
    IN IF missing > 0
       THEN /\ df_clean' = fillna(df_clean, col, value)
            /\ cleaning_report' =
                  PutIn(PutIn(cleaning_report,
                      "values_imputed", count_key, missing),
                      "imputation_values_used", value_key, value)
       ELSE UNCHANGED <<df_clean, cleaning_report>>

CleanPaymentMethod ==
    /\ pc = "CleanPaymentMethod"
    /\ FillCategory("Payment Method", "Cash", "payment_methods_filled", "payment_method")
    /\ pc' = "CleanLocation"
    /\ UNCHANGED <<input, run, first>>

CleanLocation ==
    /\ pc = "CleanLocation"
    /\ FillCategory("Location", "In-store", "locations_filled", "location")
    /\ pc' = "CleanTransactionDate"
    /\ UNCHANGED <<input, run, first>>

(***************************************************************************)
(* 8. Transaction Date: drop rows without one, convert the column          *)
(***************************************************************************)
\* pd.to_datetime(column): raises unless every value parses; the except
\* clause keeps the column as text
to_datetime(df) ==
    IF \A i \in 1..Len(df) : Parseable(Cell(df[i], "Transaction Date"))
    THEN Map(df, LAMBDA r : SetCell(r, "Transaction Date", Timestamp(Cell(r, "Transaction Date").s)))
    ELSE df

CleanTransactionDate ==
    /\ pc = "CleanTransactionDate"
    /\ LET missing_dates == Count(df_clean, LAMBDA r : isnull(Cell(r, "Transaction Date")))
           after == dropna(df_clean, "Transaction Date")
       IN IF missing_dates > 0
          THEN /\ df_clean' = to_datetime(after)
               /\ cleaning_report' =
                     PutIn(cleaning_report, "rows_removed_by_operation",
                           "missing_transaction_dates", Len(df_clean) - Len(after))
          ELSE /\ df_clean' = to_datetime(df_clean)
               /\ UNCHANGED cleaning_report
    /\ pc' = "Finalize"
    /\ UNCHANGED <<input, run, first>>

(***************************************************************************)
(* the report is finalized and clean_data returns                          *)
(***************************************************************************)
\* (final / initial) * 100, kept as an exact fraction
RetentionRate(final, initial) == [num |-> final * 100, den |-> initial]

\* len(df_clean) / 0 raises ZeroDivisionError after the first two keys are set
Finalize ==
    /\ pc = "Finalize"
    /\ LET counted ==
              Put(Put(cleaning_report, "final_rows", Len(df_clean)),
                  "total_rows_removed", cleaning_report["initial_rows"] - Len(df_clean))
       IN IF cleaning_report["initial_rows"] = 0
          THEN /\ cleaning_report' = counted
               /\ pc' = "raised"
          ELSE /\ cleaning_report' =
                     Put(counted, "data_retention_rate",
                         RetentionRate(Len(df_clean), cleaning_report["initial_rows"]))
               /\ pc' = "done"
    /\ UNCHANGED <<input, df_clean, run, first>>

\* clean_data called again, on the DataFrame it returned
Rerun ==
    /\ pc = "done"
    /\ run = 1
    /\ first' = [df |-> df_clean, report |-> cleaning_report]
    /\ input' = df_clean
    /\ df_clean' = df_clean
    /\ cleaning_report' = InitialReport(df_clean)
    /\ pc' = "HandleMissing"
    /\ run' = 2

Next ==
    \/ HandleMissing
    \/ CleanTransactionID
    \/ CleanItem
    \/ CleanQuantity
    \/ CleanPrice
    \/ RecalcTotal
    \/ CleanPaymentMethod
    \/ CleanLocation
    \/ CleanTransactionDate
    \/ Finalize
    \/ Rerun

Spec == Init /\ [][Next]_vars

(***************************************************************************)
(* Properties                                                              *)
(***************************************************************************)
IsSentinel(c) == c.t = "str" /\ c.s \in {"", "ERROR", "UNKNOWN"}

Missing(c) == isnull(c) \/ IsSentinel(c)

\* what a raw numeric cell stands for: NaN for a sentinel or unparseable text
Parsed(c) == IF IsSentinel(c) THEN NaN ELSE to_numeric(c)

\* the input row a row of df_clean comes from (index labels are unique)
Source(r) == input[CHOOSE i \in 1..Len(input) : input[i].idx = r.idx]

Survives(r) == \E j \in 1..Len(df_clean) : df_clean[j].idx = r.idx

Survivor(r) == df_clean[CHOOSE j \in 1..Len(df_clean) : df_clean[j].idx = r.idx]

RECURSIVE SumValues(_)
SumValues(d) ==
    IF DOMAIN d = {} THEN 0
    ELSE LET k == CHOOSE x \in DOMAIN d : TRUE
         IN d[k] + SumValues([x \in (DOMAIN d) \ {k} |-> d[x]])

\* C1: every row of the returned dataset has an Item that is a key of
\* MENU_PRICES and a Price Per Unit equal to MENU_PRICES[Item].
C1_ItemAndPriceFromMenu ==
    pc = "done" =>
        \A j \in 1..Len(df_clean) :
            /\ InMenu(Cell(df_clean[j], "Item"))
            /\ Cell(df_clean[j], "Price Per Unit")
                   = Num(MENU_PRICES[Cell(df_clean[j], "Item").s])

\* C2: every row of the returned dataset has Total Spent equal to
\* Quantity * Price Per Unit, as an equality of defined numbers.
C2_TotalIsProduct ==
    pc = "done" =>
        \A j \in 1..Len(df_clean) :
            LET q == Cell(df_clean[j], "Quantity")
                p == Cell(df_clean[j], "Price Per Unit")
                total == Cell(df_clean[j], "Total Spent")
            IN /\ q.t = "num" /\ p.t = "num" /\ total.t = "num"
               /\ total.n * 100 = q.n * p.n

\* C3: no row of the returned dataset has a null Transaction ID, Item or
\* Transaction Date, the sentinels '', 'ERROR' and 'UNKNOWN' counting as null.
C3_NoNullRequired ==
    pc = "done" =>
        \A j \in 1..Len(df_clean) :
            \A col \in {"Transaction ID", "Item", "Transaction Date"} :
                ~Missing(Cell(df_clean[j], col))

\* a run returned rows although the input had a sentinel in each required column
C3_Witness ==
    /\ pc = "done"
    /\ run = 1
    /\ Len(df_clean) >= 1
    /\ \A col \in {"Transaction ID", "Item", "Transaction Date"} :
          \E i \in 1..Len(input) : IsSentinel(Cell(input[i], col))

\* C4: in the returned report 0 <= final_rows <= initial_rows, final_rows is
\* initial_rows minus the sum of the values of rows_removed_by_operation, and
\* total_rows_removed is that sum.
C4_RowAccounting ==
    pc = "done" =>
        LET removed == SumValues(cleaning_report["rows_removed_by_operation"])
        IN /\ cleaning_report["final_rows"] = Len(df_clean)
           /\ 0 <= cleaning_report["final_rows"]
           /\ cleaning_report["final_rows"] <= cleaning_report["initial_rows"]
           /\ cleaning_report["final_rows"] = cleaning_report["initial_rows"] - removed
           /\ cleaning_report["total_rows_removed"] = removed

\* rows were removed and kept, and no row lacked a date: the key is absent
C4_Witness ==
    /\ pc = "done"
    /\ "missing_transaction_dates" \notin DOMAIN cleaning_report["rows_removed_by_operation"]
    /\ cleaning_report["rows_removed_by_operation"]["missing_transaction_id"] >= 1
    /\ cleaning_report["rows_removed_by_operation"]["unresolvable_missing_items"] >= 1
    /\ cleaning_report["final_rows"] >= 1

\* C5: clean_data run on its own non-empty result returns the same rows,
\* removes no row in any stage and performs no correction.
C5_Idempotent ==
    (pc = "done" /\ run = 2) =>
        /\ df_clean = first.df
        /\ \A k \in DOMAIN cleaning_report["rows_removed_by_operation"] :
              cleaning_report["rows_removed_by_operation"][k] = 0
        /\ cleaning_report["price_corrections"] = 0
        /\ \A k \in {"items_inferred_from_price", "invalid_quantities_fixed",
                     "missing_prices_filled", "payment_methods_filled",
                     "locations_filled"} \cap DOMAIN cleaning_report["values_imputed"] :
              cleaning_report["values_imputed"][k] = 0

\* the second run returned, after a first run that removed rows, corrected a
\* price, fixed a quantity and filled a category
C5_Witness ==
    /\ pc = "done"
    /\ run = 2
    /\ Len(df_clean) >= 1
    /\ first.report["total_rows_removed"] >= 1
    /\ first.report["values_imputed"]["items_inferred_from_price"] >= 1
    /\ "invalid_quantities_fixed" \in DOMAIN first.report["values_imputed"]
    /\ "payment_methods_filled" \in DOMAIN first.report["values_imputed"]

\* C6: clean_data never raises, and the report it returns contains
\* initial_rows, final_rows, total_rows_removed and data_retention_rate.
C6_AlwaysReturns ==
    /\ pc # "raised"
    /\ pc = "done" =>
          {"initial_rows", "final_rows", "total_rows_removed",
           "data_retention_rate"} \subseteq DOMAIN cleaning_report

\* an input row with a Transaction ID, a Transaction Date and an Item that is
\* present or inferable from its price
Qualifies(r) ==
    /\ ~Missing(Cell(r, "Transaction ID"))
    /\ ~Missing(Cell(r, "Transaction Date"))
    /\ \/ ~Missing(Cell(r, "Item"))
       \/ \E it \in DOMAIN MENU_PRICES :
             Parsed(Cell(r, "Price Per Unit")) = Num(MENU_PRICES[it])

C8_QuantityPositive ==
    pc = "done" =>
        \A j \in 1..Len(df_clean) :
            LET q == Cell(df_clean[j], "Quantity")
                q0 == Parsed(Cell(Source(df_clean[j]), "Quantity"))
            IN /\ q.t = "num"
               /\ q.n > 0
               /\ q = IF q0.t = "num" /\ q0.n > 0 THEN q0 ELSE Num(100)

\* one returned row had quantity -1 and now has 1, another kept its 2
C8_Witness ==
    /\ pc = "done"
    /\ run = 1
    /\ \E j \in 1..Len(df_clean) :
          /\ Cell(Source(df_clean[j]), "Quantity") = Str("-1")
          /\ Cell(df_clean[j], "Quantity") = Num(100)
    /\ \E j \in 1..Len(df_clean) :
          /\ Cell(Source(df_clean[j]), "Quantity") = Str("2")
          /\ Cell(df_clean[j], "Quantity") = Num(200)

\* positions in the menu, in table order, whose price is the row's price
Matches(r) ==
    {k \in 1..Len(MENU_ORDER) :
        /\ Parsed(Cell(r, "Price Per Unit")).t = "num"
        /\ MENU_PRICES[MENU_ORDER[k]] = Parsed(Cell(r, "Price Per Unit")).n}

\* the input rows stage 3 receives
HasId(r) == ~Missing(Cell(r, "Transaction ID"))

\* C9: after stage 3 a row that had no Item has the first menu item, in table
\* order, whose price equals its price (4.0 gives Sandwich, 3.0 gives Cake) and
\* is counted in items_inferred_from_price; a row with no Item and no such
\* price is gone and counted in unresolvable_missing_items; a row that had an
\* Item keeps it.
C9_ItemInference ==
    pc = "CleanQuantity" =>
        /\ \A i \in 1..Len(input) :
              HasId(input[i]) =>
                  IF Missing(Cell(input[i], "Item"))
                  THEN IF Matches(input[i]) # {}
                       THEN /\ Survives(input[i])
                            /\ \E k \in Matches(input[i]) :
                                  /\ \A m \in Matches(input[i]) : k <= m
                                  /\ Cell(Survivor(input[i]), "Item") = Str(MENU_ORDER[k])
                            /\ Parsed(Cell(input[i], "Price Per Unit")) = Num(400)
                                  => Cell(Survivor(input[i]), "Item") = Str("Sandwich")
                            /\ Parsed(Cell(input[i], "Price Per Unit")) = Num(300)
                                  => Cell(Survivor(input[i]), "Item") = Str("Cake")
                       ELSE ~Survives(input[i])
                  ELSE /\ Survives(input[i])
                       /\ Cell(Survivor(input[i]), "Item") = Cell(input[i], "Item")
        /\ cleaning_report["values_imputed"]["items_inferred_from_price"] =
              Count(input, LAMBDA r : HasId(r) /\ Missing(Cell(r, "Item")) /\ Matches(r) # {})
        /\ cleaning_report["rows_removed_by_operation"]["unresolvable_missing_items"] =
              Count(input, LAMBDA r : HasId(r) /\ Missing(Cell(r, "Item")) /\ Matches(r) = {})

\* stage 3 inferred Cake from a price of 3.0 and dropped an unresolvable row
C9_Witness ==
    /\ pc = "CleanQuantity"
    /\ run = 1
    /\ cleaning_report["rows_removed_by_operation"]["unresolvable_missing_items"] >= 1
    /\ \E j \in 1..Len(df_clean) :
          /\ IsSentinel(Cell(Source(df_clean[j]), "Item"))
          /\ Cell(Source(df_clean[j]), "Price Per Unit") = Str("3.0")
          /\ Cell(df_clean[j], "Item") = Str("Cake")

CategoryValues == {"Cash", "Credit Card", "Digital Wallet", "In-store", "Takeaway"}

Times(df, col, v) == Cardinality({i \in 1..Len(df) : Cell(df[i], col) = Str(v)})

\* one step of stage 7 on a column: every null becomes one value v, a most
\* frequent non-null value of the column before the step, or the default if
\* the column had no non-null value; other cells are unchanged
FilledByMode(col, default) ==
    /\ Len(df_clean') = Len(df_clean)
    /\ \E v \in CategoryValues :
          /\ \A i \in 1..Len(df_clean) :
                /\ df_clean'[i].idx = df_clean[i].idx
                /\ Cell(df_clean'[i], col) =
                      IF isnull(Cell(df_clean[i], col)) THEN Str(v) ELSE Cell(df_clean[i], col)
          /\ IF \A i \in 1..Len(df_clean) : isnull(Cell(df_clean[i], col))
             THEN v = default
             ELSE /\ Times(df_clean, col, v) >= 1
                  /\ \A w \in CategoryValues : Times(df_clean, col, v) >= Times(df_clean, col, w)

\* C10: stage 7 replaces every null Payment Method (and separately every null
\* Location) by one value, a most frequent non-null value of the column over
\* the rows present at stage 7, the default 'Cash' ('In-store') only if the
\* column has no non-null value; afterwards no row has a null Payment Method
\* or Location.
C10_CategoricalFill ==
    /\ [][/\ pc = "CleanPaymentMethod" => FilledByMode("Payment Method", "Cash")
          /\ pc = "CleanLocation" => FilledByMode("Location", "In-store")]_vars
    /\ [](pc \in {"CleanTransactionDate", "Finalize", "done", "raised"} =>
            \A j \in 1..Len(df_clean) :
                /\ ~isnull(Cell(df_clean[j], "Payment Method"))
                /\ ~isnull(Cell(df_clean[j], "Location")))

\* stage 7 filled with 'Credit Card', the most frequent value only because a
\* row without a date, which stage 8 drops, is counted
C10_Witness ==
    /\ pc = "CleanTransactionDate"
    /\ run = 1
    /\ "payment_method" \in DOMAIN cleaning_report["imputation_values_used"]
    /\ cleaning_report["imputation_values_used"]["payment_method"] = "Credit Card"
    /\ Times(df_clean, "Payment Method", "Cash") >= 1
    /\ Cardinality({i \in 1..Len(input) :
                      /\ Cell(input[i], "Payment Method") = Str("Credit Card")
                      /\ ~Missing(Cell(input[i], "Transaction Date"))})
          <= Cardinality({i \in 1..Len(input) :
                      /\ Cell(input[i], "Payment Method") = Str("Cash")
                      /\ ~Missing(Cell(input[i], "Transaction Date"))})
    /\ \E i \in 1..Len(df_clean) : isnull(Cell(df_clean[i], "Transaction Date"))

\* rows stage 8 removed for a missing date; the key is absent when there were none
DatesRemoved ==
    IF "missing_transaction_dates" \in DOMAIN cleaning_report["rows_removed_by_operation"]
    THEN cleaning_report["rows_removed_by_operation"]["missing_transaction_dates"]
    ELSE 0

\* C11 as stated: total_calculations_fixed equals final_rows, the number of
\* rows of the returned dataset, for every input.
C11_CountIsFinalRows ==
    pc = "done" =>
        /\ cleaning_report["total_calculations_fixed"] = cleaning_report["final_rows"]
        /\ cleaning_report["total_calculations_fixed"] = Len(df_clean)

\* C11 as amended: total_calculations_fixed is the number of rows present at
\* stage 6, the rows that survived stages 2-3: final_rows plus the rows stage 8
\* removed for a missing date, so it equals final_rows exactly when stage 8
\* removes no row.
C11_CountIsRowsAtStage6 ==
    pc = "done" =>
        /\ cleaning_report["total_calculations_fixed"]
              = cleaning_report["final_rows"] + DatesRemoved
        /\ cleaning_report["total_calculations_fixed"]
              = cleaning_report["initial_rows"]
                  - cleaning_report["rows_removed_by_operation"]["missing_transaction_id"]
                  - cleaning_report["rows_removed_by_operation"]["unresolvable_missing_items"]
        /\ cleaning_report["total_calculations_fixed"]
              = Count(input, LAMBDA r : HasId(r) /\ (~Missing(Cell(r, "Item")) \/ Matches(r) # {}))

\* a run returned rows after stage 8 dropped a row that had an id and an item
C11_Witness ==
    /\ pc = "done"
    /\ run = 1
    /\ DatesRemoved >= 1
    /\ cleaning_report["final_rows"] >= 1
    /\ cleaning_report["total_calculations_fixed"] > cleaning_report["final_rows"]

====
